---- MODULE Spec2Model ----
(***************************************************************************)
(* Model of KDDockWidgets' qtquick DockWidgetModel (the ordered list of    *)
(* dock widgets behind a tab bar), src/src/qtquick/views/TabBar.cpp.       *)
(*                                                                         *)
(* Every member function is an operator that maps a record of the object's *)
(* fields to the record after the call, so that calls nest as they do in   *)
(* the code (setCurrentDockWidget <-> setCurrentIndex, remove called from  *)
(* an observer of one of remove's own signals).  One action per public     *)
(* entry point applies the operator to the current fields.                 *)
(***************************************************************************)
EXTENDS Integers, Sequences, FiniteSets, TLC

\* Number of Core::DockWidget objects the environment creates.
NumHandles == 3

\* nullptr, as returned by dockWidgetAt for an index out of range.
NULL == 0

Handles == 1..NumHandles

\* Indexes passed by callers: one below and one above every valid index.
Indexes == (0 - 1)..(NumHandles + 1)

VARIABLES
    m_dockWidgets,        \* QVector<Core::DockWidget *>: the tab order
    m_currentDockWidget,  \* Core::DockWidget *, NULL when there is none
    m_connections,        \* QHash<DockWidget *, QVector<Connection>>
    m_removeGuard,        \* bool, set while remove() runs
    m_isSettingCurrent,   \* DockWidget::Private::m_isSettingCurrent, per handle
    connected,            \* the signal connections Qt currently holds
    alive,                \* which dock widgets have not been destroyed
    crashed,              \* the process died in a call on a destroyed object
    trace,                \* calls and signals of the last entry point, in order
    lastOp,               \* the last entry point, its arguments and its result
    mirror,               \* the list an observer of the row signals maintains
    m_hoveredTabIndex,    \* TabBar::m_hoveredTabIndex, -1 when no tab is hovered
    hoverEvent,           \* the last hover event: its type and the tabs under it
    insertionOrder,       \* history: tracked handles, oldest insertion first
    appendOnly,           \* history: every insert so far used index = count()
    scenarioStep          \* history: how many steps of Scenario have been run

vars == <<m_dockWidgets, m_currentDockWidget, m_connections, m_removeGuard,
          m_isSettingCurrent, connected, alive, crashed, trace, lastOp, mirror,
          m_hoveredTabIndex, hoverEvent,
          insertionOrder, appendOnly, scenarioStep>>

----------------------------------------------------------------------------
\* Sequence helpers (QVector semantics).

Range(q) == {q[i] : i \in 1..Len(q)}

\* QVector::indexOf: the 0-based position of the first occurrence, or -1.
QIndexOf(q, x) ==
    IF x \in Range(q) THEN (CHOOSE i \in 1..Len(q) : q[i] = x /\ \A j \in 1..(i - 1) : q[j] # x) - 1
    ELSE 0 - 1

\* QVector::insert(i, x) for 0 <= i <= size().
QInsert(q, i, x) == SubSeq(q, 1, i) \o <<x>> \o SubSeq(q, i + 1, Len(q))

\* QVector::removeOne(x): drops the first occurrence, if any.
QRemoveOne(q, x) ==
    IF x \in Range(q)
    THEN LET i == QIndexOf(q, x) + 1 IN SubSeq(q, 1, i - 1) \o SubSeq(q, i + 1, Len(q))
    ELSE q

BoolInt(b) == IF b THEN 1 ELSE 0

----------------------------------------------------------------------------
\* The object's fields as one record, and the log of what a call does.

Self ==
    [m_dockWidgets |-> m_dockWidgets, m_currentDockWidget |-> m_currentDockWidget,
     m_connections |-> m_connections, m_removeGuard |-> m_removeGuard,
     m_isSettingCurrent |-> m_isSettingCurrent, connected |-> connected,
     alive |-> alive, crashed |-> FALSE, trace |-> <<>>, ret |-> 0,
     mirror |-> mirror]

\* One logged call or signal.  dw: the handle it concerns (NULL if none);
\* arg: its integer argument; live: whether dw was alive at that moment;
\* flag: a boolean observed at that moment (see each use).
Ev(kind, dw, arg, live, flag) ==
    [ev |-> kind, dw |-> dw, arg |-> arg, live |-> live, flag |-> flag]

Log(s, e) == [s EXCEPT !.trace = Append(@, e)]

qWarning(s, msg, dw) == Log(s, Ev(msg, dw, 0, TRUE, FALSE))

\* The connection made by connect(dw, signal, this, ...).
Conn(dw, signal) == [sender |-> dw, signal |-> signal]

\* Signals of remove() from which an observer may call back into the model.
Hooks == {"rowsRemoved", "countChanged", "dockWidgetRemoved"}

\* What a slot connected to one of these signals may do with a dock widget:
\* call remove(dw), or delete dw.
Reactions == {"remove", "delete"}

\* What the observers do during one entry point: nothing, or one reaction
\* from the slot of one signal.
Plans ==
    {<<>>} \cup {<<[hook |-> k, act |-> a, dw |-> g]>> :
                    k \in Hooks, a \in Reactions, g \in Handles}

----------------------------------------------------------------------------
\* Const member functions.

count(s) == Len(s.m_dockWidgets)

\* dockWidgetAt with the index taken as 1-based.
dockWidgetAt_OffByOne(s, index) ==
    IF index <= 0 \/ index > Len(s.m_dockWidgets) THEN NULL
    ELSE s.m_dockWidgets[index]

dockWidgetAt(s, index) ==
    IF index < 0 \/ index >= Len(s.m_dockWidgets) THEN NULL
    ELSE s.m_dockWidgets[index + 1]

contains(s, dw) == dw \in Range(s.m_dockWidgets)

indexOf(s, dw) == QIndexOf(s.m_dockWidgets, dw)

\* The value currentIndex() returns.
currentIndex(s) ==
    IF s.m_currentDockWidget = NULL THEN 0 - 1
    ELSE QIndexOf(s.m_dockWidgets, s.m_currentDockWidget)

----------------------------------------------------------------------------
\* Calls on a dock widget.  A call on a destroyed object is undefined
\* behaviour: ub chooses between the outcomes "benign" (the call returns and
\* nothing else is disturbed) and "crash" (the process dies in the call).

UBOutcomes == {"benign", "crash"}

\* dw->setVisible(v); flag logs dw->d->m_isSettingCurrent during the call.
setVisible(s, dw, v, ub) ==
    LET s1 == Log(s, Ev("setVisible", dw, BoolInt(v), s.alive[dw], s.m_isSettingCurrent[dw]))
    IN  IF ~s.alive[dw] /\ ub = "crash" THEN [s1 EXCEPT !.crashed = TRUE] ELSE s1

\* dw->title(), called by data().
title(s, dw, ub) ==
    LET s1 == Log(s, Ev("title", dw, 0, s.alive[dw], FALSE))
    IN  IF ~s.alive[dw] /\ ub = "crash" THEN [s1 EXCEPT !.crashed = TRUE] ELSE s1

----------------------------------------------------------------------------
\* setCurrentIndex and setCurrentDockWidget call each other.

RECURSIVE setCurrentIndex(_, _, _)

\* setCurrentDockWidget without the setVisible(false) of the previous handle.
setCurrentDockWidget_NoHide(s, dw, ub) ==
    LET s2 == Log([s EXCEPT !.m_currentDockWidget = dw],
                  Ev("m_currentDockWidget =", dw, 0, TRUE, FALSE))
        s3 == setCurrentIndex(s2, indexOf(s2, dw), ub)
        cur == s3.m_currentDockWidget
        old == s3.m_isSettingCurrent[cur]
        s4 == [s3 EXCEPT !.m_isSettingCurrent[cur] = TRUE]
        s5 == setVisible(s4, cur, TRUE, ub)
    IN  IF s3.crashed THEN s3
        ELSE IF cur = NULL THEN s3
        ELSE IF s5.crashed THEN s5
        ELSE [s5 EXCEPT !.m_isSettingCurrent[cur] = old]

\* setCurrentDockWidget that shows the new handle before it hides the
\* previous one.
setCurrentDockWidget_ShowFirst(s, dw, ub) ==
    LET prev == s.m_currentDockWidget
        s2 == Log([s EXCEPT !.m_currentDockWidget = dw],
                  Ev("m_currentDockWidget =", dw, 0, TRUE, FALSE))
        s3 == setCurrentIndex(s2, indexOf(s2, dw), ub)
        cur == s3.m_currentDockWidget
        old == s3.m_isSettingCurrent[cur]
        s4 == [s3 EXCEPT !.m_isSettingCurrent[cur] = TRUE]
        s5 == IF cur = NULL THEN s3
              ELSE [setVisible(s4, cur, TRUE, ub) EXCEPT !.m_isSettingCurrent[cur] = old]
    IN  IF s5.crashed \/ prev = NULL THEN s5
        ELSE setVisible(s5, prev, FALSE, ub)

setCurrentDockWidget(s, dw, ub) ==
    LET s1 == IF s.m_currentDockWidget # NULL
              THEN setVisible(s, s.m_currentDockWidget, FALSE, ub)
              ELSE s
        s2 == Log([s1 EXCEPT !.m_currentDockWidget = dw],
                  Ev("m_currentDockWidget =", dw, 0, TRUE, FALSE))
        s3 == setCurrentIndex(s2, indexOf(s2, dw), ub)
        cur == s3.m_currentDockWidget
        \* QScopedValueRollback<bool> guard(cur->d->m_isSettingCurrent, true)
        old == s3.m_isSettingCurrent[cur]
        s4 == [s3 EXCEPT !.m_isSettingCurrent[cur] = TRUE]
        s5 == setVisible(s4, cur, TRUE, ub)
    IN  IF s1.crashed THEN s1
        ELSE IF s3.crashed THEN s3
        ELSE IF cur = NULL THEN s3
        ELSE IF s5.crashed THEN s5
        ELSE [s5 EXCEPT !.m_isSettingCurrent[cur] = old]

\* setCurrentIndex that tells the controller even when nothing changes.
setCurrentIndex_AlwaysNotifies(s, index, ub) ==
    LET dw == dockWidgetAt(s, index)
        s1 == IF s.m_currentDockWidget # dw THEN setCurrentDockWidget(s, dw, ub) ELSE s
    IN  IF s1.crashed THEN s1
        ELSE Log(s1, Ev("m_tabBar->setCurrentIndex", NULL, index, TRUE, FALSE))

setCurrentIndex(s, index, ub) ==
    LET dw == dockWidgetAt(s, index)
        s1 == setCurrentDockWidget(s, dw, ub)
    IN  IF s.m_currentDockWidget # dw
        THEN IF s1.crashed THEN s1
             ELSE Log(s1, Ev("m_tabBar->setCurrentIndex", NULL, index, TRUE, FALSE))
        ELSE s

----------------------------------------------------------------------------
\* remove, and the signals it emits.  An observer's slot runs inside Q_EMIT,
\* so a planned call of remove nests in the remove that emits the signal.

RECURSIVE remove(_, _, _)

\* The slot of a list view that mirrors the model from its row signals: it
\* reads the row named by the signal, never the whole list.
Observe(s, signal, arg) ==
    LET inRange == 0 <= arg /\ arg < Len(s.mirror)
    IN  CASE signal = "rowsInserted" /\ 0 <= arg /\ arg <= Len(s.mirror) ->
                [s EXCEPT !.mirror = QInsert(@, arg, dockWidgetAt(s, arg))]
          [] signal = "rowsRemoved" /\ inRange ->
                [s EXCEPT !.mirror = SubSeq(@, 1, arg) \o SubSeq(@, arg + 2, Len(@))]
          [] signal = "dataChanged" /\ inRange ->
                [s EXCEPT !.mirror[arg + 1] = dockWidgetAt(s, arg)]
          [] OTHER -> s

\* dw is destroyed: its destroyed() signal runs the lambda of insert,
\* [dw, this] { remove(dw); }, if that connection still exists; Qt then drops
\* every connection of the dying sender.
destroyed(s, dw, plan) ==
    LET s0 == [s EXCEPT !.alive[dw] = FALSE]
        s1 == IF Conn(dw, "destroyed") \in s.connected THEN remove(s0, dw, plan) ELSE s0
    IN  IF s.alive[dw]
        THEN [s1 EXCEPT !.connected = {c \in @ : c.sender # dw}]
        ELSE s

\* Q_EMIT signal(arg): the slots run before the emission returns, the
\* mirroring view's first, then the planned reaction of an observer.
Emit(s, signal, arg, plan) ==
    LET s1 == Observe(Log(s, Ev(signal, NULL, arg, TRUE, FALSE)), signal, arg)
    IN  IF plan # <<>> /\ plan[1].hook = signal
        THEN IF plan[1].act = "remove"
             THEN remove(s1, plan[1].dw, Tail(plan))
             ELSE destroyed(s1, plan[1].dw, Tail(plan))
        ELSE s1

\* disconnect(conn) for every connection of the list.
disconnectAll(s, conns) ==
    [s EXCEPT !.connected = @ \ Range(conns)]

\* m_connections.take(dw): the stored list (empty if there is none).
takeConnections(s, dw) ==
    IF dw \in DOMAIN s.m_connections THEN s.m_connections[dw] ELSE <<>>

\* remove without the test of row: the removal path runs for an absent handle.
remove_NoRowCheck(s, dw, plan) ==
    LET saved == s.m_removeGuard
        s0 == [s EXCEPT !.m_removeGuard = TRUE]
        row == indexOf(s0, dw)
        s1 == Log(s0, Ev("remove", dw, row, s0.alive[dw], saved))
        t1 == [s1 EXCEPT !.m_connections =
                  [h \in (DOMAIN s1.m_connections) \ {dw} |-> s1.m_connections[h]]]
        t2 == disconnectAll(t1, takeConnections(s1, dw))
        t3 == Emit(t2, "rowsAboutToBeRemoved", row, plan)
        t4 == [t3 EXCEPT !.m_dockWidgets = QRemoveOne(@, dw)]
        t5 == Emit(t4, "rowsRemoved", row, plan)
        t6 == Emit(t5, "countChanged", 0, plan)
        t7 == Emit(t6, "dockWidgetRemoved", 0, plan)
    IN  [t7 EXCEPT !.m_removeGuard = saved]

\* remove that also resets the current handle once the row is gone.
remove_ClearsCurrent(s, dw, plan) ==
    LET saved == s.m_removeGuard
        s0 == [s EXCEPT !.m_removeGuard = TRUE]
        row == indexOf(s0, dw)
        s1 == Log(s0, Ev("remove", dw, row, s0.alive[dw], saved))
        t1 == [s1 EXCEPT !.m_connections =
                  [h \in (DOMAIN s1.m_connections) \ {dw} |-> s1.m_connections[h]]]
        t2 == disconnectAll(t1, takeConnections(s1, dw))
        t3 == Emit(t2, "rowsAboutToBeRemoved", row, plan)
        t4 == [t3 EXCEPT !.m_dockWidgets = QRemoveOne(@, dw), !.m_currentDockWidget = NULL]
        t5 == Emit(t4, "rowsRemoved", row, plan)
        t6 == Emit(t5, "countChanged", 0, plan)
        t7 == Emit(t6, "dockWidgetRemoved", 0, plan)
        done == IF row = 0 - 1 THEN s1 ELSE t7
    IN  [done EXCEPT !.m_removeGuard = saved]

\* remove that forgets the handle's connections without disconnecting them.
remove_NoDisconnect(s, dw, plan) ==
    LET saved == s.m_removeGuard
        s0 == [s EXCEPT !.m_removeGuard = TRUE]
        row == indexOf(s0, dw)
        s1 == Log(s0, Ev("remove", dw, row, s0.alive[dw], saved))
        t2 == [s1 EXCEPT !.m_connections =
                  [h \in (DOMAIN s1.m_connections) \ {dw} |-> s1.m_connections[h]]]
        t3 == Emit(t2, "rowsAboutToBeRemoved", row, plan)
        t4 == [t3 EXCEPT !.m_dockWidgets = QRemoveOne(@, dw)]
        t5 == Emit(t4, "rowsRemoved", row, plan)
        t6 == Emit(t5, "countChanged", 0, plan)
        t7 == Emit(t6, "dockWidgetRemoved", 0, plan)
        done == IF row = 0 - 1 THEN s1 ELSE t7
    IN  [done EXCEPT !.m_removeGuard = saved]

\* remove that passes the row after the one removed to begin/endRemoveRows.
remove_WrongRowSignalled(s, dw, plan) ==
    LET saved == s.m_removeGuard
        s0 == [s EXCEPT !.m_removeGuard = TRUE]
        row == indexOf(s0, dw)
        s1 == Log(s0, Ev("remove", dw, row, s0.alive[dw], saved))
        t1 == [s1 EXCEPT !.m_connections =
                  [h \in (DOMAIN s1.m_connections) \ {dw} |-> s1.m_connections[h]]]
        t2 == disconnectAll(t1, takeConnections(s1, dw))
        t3 == Emit(t2, "rowsAboutToBeRemoved", row + 1, plan)
        t4 == [t3 EXCEPT !.m_dockWidgets = QRemoveOne(@, dw)]
        t5 == Emit(t4, "rowsRemoved", row + 1, plan)
        t6 == Emit(t5, "countChanged", 0, plan)
        t7 == Emit(t6, "dockWidgetRemoved", 0, plan)
        done == IF row = 0 - 1 THEN s1 ELSE t7
    IN  [done EXCEPT !.m_removeGuard = saved]

\* remove that emits its signals first and takes the handle out of
\* m_dockWidgets last.
remove_SignalsBeforeRemoval(s, dw, plan) ==
    LET saved == s.m_removeGuard
        s0 == [s EXCEPT !.m_removeGuard = TRUE]
        row == indexOf(s0, dw)
        s1 == Log(s0, Ev("remove", dw, row, s0.alive[dw], saved))
        t1 == [s1 EXCEPT !.m_connections =
                  [h \in (DOMAIN s1.m_connections) \ {dw} |-> s1.m_connections[h]]]
        t2 == disconnectAll(t1, takeConnections(s1, dw))
        t3 == Emit(t2, "rowsAboutToBeRemoved", row, plan)
        t5 == Emit(t3, "rowsRemoved", row, plan)
        t6 == Emit(t5, "countChanged", 0, plan)
        t7 == Emit(t6, "dockWidgetRemoved", 0, plan)
        t8 == [t7 EXCEPT !.m_dockWidgets = QRemoveOne(@, dw)]
        done == IF row = 0 - 1 THEN s1 ELSE t8
    IN  [done EXCEPT !.m_removeGuard = saved]

\* remove that emits its signals but leaves the handle in m_dockWidgets.
remove_KeepsRow(s, dw, plan) ==
    LET saved == s.m_removeGuard
        s0 == [s EXCEPT !.m_removeGuard = TRUE]
        row == indexOf(s0, dw)
        s1 == Log(s0, Ev("remove", dw, row, s0.alive[dw], saved))
        t1 == [s1 EXCEPT !.m_connections =
                  [h \in (DOMAIN s1.m_connections) \ {dw} |-> s1.m_connections[h]]]
        t2 == disconnectAll(t1, takeConnections(s1, dw))
        t3 == Emit(t2, "rowsAboutToBeRemoved", row, plan)
        t5 == Emit(t3, "rowsRemoved", row, plan)
        t6 == Emit(t5, "countChanged", 0, plan)
        t7 == Emit(t6, "dockWidgetRemoved", 0, plan)
        done == IF row = 0 - 1 THEN s1 ELSE t7
    IN  [done EXCEPT !.m_removeGuard = saved]

\* remove that tests the guard as it was on entry, before the rollback
\* object set it.
remove_GuardCheckedBeforeSet(s, dw, plan) ==
    LET saved == s.m_removeGuard
        s0 == [s EXCEPT !.m_removeGuard = TRUE]
        row == indexOf(s0, dw)
        s1 == Log(s0, Ev("remove", dw, row, s0.alive[dw], saved))
        absent == IF ~saved
                  THEN qWarning(s1, "qWarning: Nothing to remove", dw)
                  ELSE s1
        t1 == [s1 EXCEPT !.m_connections =
                  [h \in (DOMAIN s1.m_connections) \ {dw} |-> s1.m_connections[h]]]
        t2 == disconnectAll(t1, takeConnections(s1, dw))
        t3 == Emit(t2, "rowsAboutToBeRemoved", row, plan)
        t4 == [t3 EXCEPT !.m_dockWidgets = QRemoveOne(@, dw)]
        t5 == Emit(t4, "rowsRemoved", row, plan)
        t6 == Emit(t5, "countChanged", 0, plan)
        t7 == Emit(t6, "dockWidgetRemoved", 0, plan)
        done == IF row = 0 - 1 THEN absent ELSE t7
    IN  [done EXCEPT !.m_removeGuard = saved]

remove(s, dw, plan) ==
    LET saved == s.m_removeGuard
        \* QScopedValueRollback<bool> guard(m_removeGuard, true)
        s0 == [s EXCEPT !.m_removeGuard = TRUE]
        row == indexOf(s0, dw)
        \* flag logs whether a remove was already running on entry
        s1 == Log(s0, Ev("remove", dw, row, s0.alive[dw], saved))
        absent == IF ~s1.m_removeGuard
                  THEN qWarning(s1, "qWarning: Nothing to remove", dw)
                  ELSE s1
        t1 == [s1 EXCEPT !.m_connections =
                  [h \in (DOMAIN s1.m_connections) \ {dw} |-> s1.m_connections[h]]]
        t2 == disconnectAll(t1, takeConnections(s1, dw))
        t3 == Emit(t2, "rowsAboutToBeRemoved", row, plan)
        t4 == [t3 EXCEPT !.m_dockWidgets = QRemoveOne(@, dw)]
        t5 == Emit(t4, "rowsRemoved", row, plan)
        t6 == Emit(t5, "countChanged", 0, plan)
        t7 == Emit(t6, "dockWidgetRemoved", 0, plan)
        done == IF row = 0 - 1 THEN absent ELSE t7
    IN  [done EXCEPT !.m_removeGuard = saved]

----------------------------------------------------------------------------
\* insert, emitDataChangedFor, data.

\* The part of insert after the duplicate test, with the connections conns
\* and the handle spliced in at position at.
insertBody(s, dw, at, index, conns) ==
    LET s1 == [s EXCEPT !.connected = @ \cup Range(conns)]
        s2 == [s1 EXCEPT !.m_connections = (dw :> conns) @@ @]
        s3 == Emit(s2, "rowsAboutToBeInserted", index, <<>>)
        s4 == [s3 EXCEPT !.m_dockWidgets = QInsert(@, at, dw)]
        s5 == Emit(s4, "rowsInserted", index, <<>>)
        s6 == Emit(s5, "countChanged", 0, <<>>)
    IN  [s6 EXCEPT !.ret = 1]

\* insert without the test for a handle that is already present.
insert_NoDuplicateCheck(s, dw, index) ==
    insertBody(s, dw, index, index, <<Conn(dw, "titleChanged"), Conn(dw, "destroyed")>>)

\* insert that does not connect to QObject::destroyed.
insert_NoDestroyedConnection(s, dw, index) ==
    IF contains(s, dw)
    THEN [qWarning(s, "qWarning: Shouldn't happen", dw) EXCEPT !.ret = 0]
    ELSE insertBody(s, dw, index, index, <<Conn(dw, "titleChanged")>>)

\* insert that emits countChanged before it rejects a duplicate.
insert_CountChangedAlways(s, dw, index) ==
    IF contains(s, dw)
    THEN [Emit(qWarning(s, "qWarning: Shouldn't happen", dw), "countChanged", 0, <<>>)
             EXCEPT !.ret = 0]
    ELSE insertBody(s, dw, index, index, <<Conn(dw, "titleChanged"), Conn(dw, "destroyed")>>)

\* insert that ignores the index and prepends.
insert_Prepends(s, dw, index) ==
    IF contains(s, dw)
    THEN [qWarning(s, "qWarning: Shouldn't happen", dw) EXCEPT !.ret = 0]
    ELSE insertBody(s, dw, 0, index, <<Conn(dw, "titleChanged"), Conn(dw, "destroyed")>>)

insert(s, dw, index) ==
    IF contains(s, dw)
    THEN [qWarning(s, "qWarning: Shouldn't happen", dw) EXCEPT !.ret = 0]
    ELSE insertBody(s, dw, index, index, <<Conn(dw, "titleChanged"), Conn(dw, "destroyed")>>)

emitDataChangedFor(s, dw) ==
    LET row == indexOf(s, dw)
    IN  IF row = 0 - 1 THEN qWarning(s, "qWarning: Couldn't find", dw)
        ELSE Emit(s, "dataChanged", row, <<>>)

\* data(index, Role_Title)
data(s, row, ub) ==
    IF row < 0 \/ row >= Len(s.m_dockWidgets) THEN s
    ELSE title(s, s.m_dockWidgets[row + 1], ub)

----------------------------------------------------------------------------
\* The state after construction, and one action per entry point.

\* The types of QHoverEvent.
HoverTypes == {"HoverEnter", "HoverMove", "HoverLeave"}

\* A pointer position, as the set of tab indexes i whose globalRectForTab(i)
\* contains it.
Points == SUBSET (0..(NumHandles - 1))

\* The loop of indexForTabPos from i on.
RECURSIVE ScanTabs(_, _, _)
ScanTabs(i, n, globalPt) ==
    IF i >= n THEN 0 - 1
    ELSE IF i \in globalPt THEN i
    ELSE ScanTabs(i + 1, n, globalPt)

\* indexForTabPos that returns the last tab under the pointer.
indexForTabPos_LastMatch(s, globalPt) ==
    LET under == {i \in globalPt : i < count(s)}
    IN  IF under = {} THEN 0 - 1
        ELSE CHOOSE i \in under : \A j \in under : j <= i

\* int TabBar::indexForTabPos(QPoint globalPt) const
indexForTabPos(s, globalPt) == ScanTabs(0, count(s), globalPt)

\* void TabBar::setHoveredTabIndex(int idx); tb holds m_hoveredTabIndex and
\* the signals emitted.
setHoveredTabIndex(tb, idx) ==
    IF idx = tb.m_hoveredTabIndex THEN tb
    ELSE [m_hoveredTabIndex |-> idx,
          trace |-> Append(tb.trace, Ev("hoveredTabIndexChanged", NULL, idx, TRUE, FALSE))]

\* void TabBar::onHoverEvent(QHoverEvent *ev, QPoint globalPos)
onHoverEvent(s, tb, type, globalPos) ==
    IF type = "HoverLeave"
    THEN setHoveredTabIndex(tb, 0 - 1)
    ELSE setHoveredTabIndex(tb, indexForTabPos(s, globalPos))

Init ==
    /\ m_dockWidgets = <<>>
    /\ m_currentDockWidget = NULL
    /\ m_connections = <<>>
    /\ m_removeGuard = FALSE
    /\ m_isSettingCurrent = [h \in Handles |-> FALSE]
    /\ connected = {}
    /\ alive = [h \in Handles |-> TRUE]
    /\ crashed = FALSE
    /\ trace = <<>>
    /\ mirror = <<>>
    /\ m_hoveredTabIndex = 0 - 1
    /\ hoverEvent = [type |-> "None", hit |-> {}]
    /\ lastOp = [op |-> "init", dw |-> NULL, arg |-> 0, ret |-> 0]
    /\ insertionOrder = <<>>
    /\ appendOnly = TRUE
    /\ scenarioStep = 0

\* Writes the fields of s back and records the entry point.
Commit(s, op, dw, arg, ret) ==
    /\ m_dockWidgets' = s.m_dockWidgets
    /\ m_currentDockWidget' = s.m_currentDockWidget
    /\ m_connections' = s.m_connections
    /\ m_removeGuard' = s.m_removeGuard
    /\ m_isSettingCurrent' = s.m_isSettingCurrent
    /\ connected' = s.connected
    /\ alive' = s.alive
    /\ crashed' = s.crashed
    /\ trace' = s.trace
    /\ mirror' = s.mirror
    /\ lastOp' = [op |-> op, dw |-> dw, arg |-> arg, ret |-> ret]
    /\ UNCHANGED <<m_hoveredTabIndex, hoverEvent>>

\* TabBar::insertDockWidget(index, dw, ...) -> DockWidgetModel::insert(dw, index)
InsertCall(dw, index) ==
    /\ ~crashed
    /\ alive[dw]
    /\ 0 <= index /\ index <= Len(m_dockWidgets)
    /\ LET s == insert(Self, dw, index) IN Commit(s, "insert", dw, index, s.ret)

\* TabBar::removeDockWidget(dw) -> DockWidgetModel::remove(dw); ret logs the
\* row dw had.
RemoveCall(dw, plan) ==
    /\ ~crashed
    /\ LET s == remove(Self, dw, plan)
       IN  Commit(s, "remove", dw, 0, indexOf(Self, dw))

\* TabBar::setCurrentIndex(index) -> DockWidgetModel::setCurrentIndex(index);
\* dw logs the handle that was current before the call.
SetCurrentIndexCall(index, ub) ==
    /\ ~crashed
    /\ LET s == setCurrentIndex(Self, index, ub)
       IN  Commit(s, "setCurrentIndex", m_currentDockWidget, index, 0)

\* The environment destroys dw.  ret logs the row dw had.
DestroyCall(dw, plan) ==
    /\ ~crashed
    /\ alive[dw]
    /\ LET s == destroyed(Self, dw, plan)
       IN  Commit(s, "destroy", dw, 0, indexOf(Self, dw))

\* dw's title changes: its titleChanged() signal runs the lambda of insert,
\* [dw, this] { emitDataChangedFor(dw); }, if that connection exists.
TitleChangedCall(dw) ==
    /\ ~crashed
    /\ alive[dw]
    /\ LET s == IF Conn(dw, "titleChanged") \in connected
                THEN emitDataChangedFor(Self, dw) ELSE Self
       IN  Commit(s, "titleChanged", dw, 0, indexOf(Self, dw))

\* A view reads data(index(row), Role_Title).
DataCall(row, ub) ==
    /\ ~crashed
    /\ LET s == data(Self, row, ub) IN Commit(s, "data", NULL, row, 0)

\* currentIndex(): returns the index and warns when the current handle is
\* not in the list.
CurrentIndexCall ==
    /\ ~crashed
    /\ LET r == currentIndex(Self)
           s == IF m_currentDockWidget # NULL /\ r = 0 - 1
                THEN qWarning(Self, "qWarning: Unexpected null index", m_currentDockWidget)
                ELSE Self
       IN  Commit(s, "currentIndex", NULL, 0, r)

\* The toolkit delivers a hover event to the tab bar.
OnHoverEventCall(type, globalPos) ==
    /\ ~crashed
    /\ LET tb == onHoverEvent(Self, [m_hoveredTabIndex |-> m_hoveredTabIndex,
                                     trace |-> <<>>], type, globalPos)
       IN  /\ m_hoveredTabIndex' = tb.m_hoveredTabIndex
           /\ trace' = tb.trace
           /\ lastOp' = [op |-> "onHoverEvent", dw |-> NULL, arg |-> 0,
                         ret |-> tb.m_hoveredTabIndex]
    /\ hoverEvent' = [type |-> type, hit |-> globalPos]
    /\ UNCHANGED <<m_dockWidgets, m_currentDockWidget, m_connections, m_removeGuard,
                   m_isSettingCurrent, connected, alive, crashed, mirror>>

----------------------------------------------------------------------------
\* Spec: every entry point, called from the event loop (no call nests in
\* another one).

NoHistory == UNCHANGED <<insertionOrder, appendOnly, scenarioStep>>

Insert(dw, index) == InsertCall(dw, index) /\ NoHistory

Remove(dw) == RemoveCall(dw, <<>>) /\ NoHistory

SetCurrentIndex(index, ub) == SetCurrentIndexCall(index, ub) /\ NoHistory

Destroy(dw) == DestroyCall(dw, <<>>) /\ NoHistory

TitleChanged(dw) == TitleChangedCall(dw) /\ NoHistory

Data(row, ub) == DataCall(row, ub) /\ NoHistory

CurrentIndex == CurrentIndexCall /\ NoHistory

Next ==
    \/ \E dw \in Handles, index \in Indexes : Insert(dw, index)
    \/ \E dw \in Handles : Remove(dw)
    \/ \E index \in Indexes, ub \in UBOutcomes : SetCurrentIndex(index, ub)
    \/ \E dw \in Handles : Destroy(dw)
    \/ \E dw \in Handles : TitleChanged(dw)
    \/ \E row \in Indexes, ub \in UBOutcomes : Data(row, ub)
    \/ CurrentIndex

Spec == Init /\ [][Next]_vars

----------------------------------------------------------------------------
\* SpecReentrant: insert, remove and destruction, where an observer of one of
\* remove's signals may call remove again before the outer call returns.

InsertR(dw, index) == InsertCall(dw, index) /\ NoHistory

RemoveR(dw, plan) == RemoveCall(dw, plan) /\ NoHistory

DestroyR(dw, plan) == DestroyCall(dw, plan) /\ NoHistory

NextReentrant ==
    \/ \E dw \in Handles, index \in Indexes : InsertR(dw, index)
    \/ \E dw \in Handles, plan \in Plans : RemoveR(dw, plan)
    \/ \E dw \in Handles, plan \in Plans : DestroyR(dw, plan)

SpecReentrant == Init /\ [][NextReentrant]_vars

----------------------------------------------------------------------------
\* SpecOrder: insert, remove and destruction, with the history of the
\* insertions: insertionOrder lists the tracked handles, oldest insertion
\* first, and appendOnly tells whether every insert so far appended.

TrackOrder ==
    /\ insertionOrder' =
          LET kept == SelectSeq(insertionOrder, LAMBDA h : h \in Range(m_dockWidgets'))
          IN  IF lastOp'.op = "insert" /\ lastOp'.ret = 1
              THEN Append(kept, lastOp'.dw) ELSE kept
    /\ appendOnly' =
          (appendOnly /\ (lastOp'.op = "insert" /\ lastOp'.ret = 1
                             => lastOp'.arg = Len(m_dockWidgets)))
    /\ UNCHANGED scenarioStep

InsertO(dw, index) == InsertCall(dw, index) /\ TrackOrder

RemoveO(dw) == RemoveCall(dw, <<>>) /\ TrackOrder

DestroyO(dw) == DestroyCall(dw, <<>>) /\ TrackOrder

NextOrder ==
    \/ \E dw \in Handles, index \in Indexes : InsertO(dw, index)
    \/ \E dw \in Handles : RemoveO(dw)
    \/ \E dw \in Handles : DestroyO(dw)

SpecOrder == Init /\ [][NextOrder]_vars

----------------------------------------------------------------------------
\* SpecScenario: insert, remove, setCurrentIndex and destruction, with the
\* progress of one fixed run from the constructed object: insert A, B, C at
\* 0, 1, 2; setCurrentIndex(1); remove A; destroy C (A, B, C = 1, 2, 3).
\* scenarioStep counts the steps of it done so far and is -1 once the run has
\* left it.

Scenario ==
    << [op |-> "insert", dw |-> 1, arg |-> 0],
       [op |-> "insert", dw |-> 2, arg |-> 1],
       [op |-> "insert", dw |-> 3, arg |-> 2],
       [op |-> "setCurrentIndex", dw |-> NULL, arg |-> 1],
       [op |-> "remove", dw |-> 1, arg |-> 0],
       [op |-> "destroy", dw |-> 3, arg |-> 0] >>

\* Whether the entry point l, with its arguments, is step k of Scenario.
IsScenarioStep(l, k) ==
    /\ l.op = Scenario[k].op
    /\ l.arg = Scenario[k].arg
    /\ l.op # "setCurrentIndex" => l.dw = Scenario[k].dw

TrackScenario ==
    /\ scenarioStep' =
          IF scenarioStep >= 0 /\ scenarioStep < Len(Scenario)
                /\ IsScenarioStep(lastOp', scenarioStep + 1)
          THEN scenarioStep + 1
          ELSE 0 - 1
    /\ UNCHANGED <<insertionOrder, appendOnly>>

InsertS(dw, index) == InsertCall(dw, index) /\ TrackScenario

RemoveS(dw) == RemoveCall(dw, <<>>) /\ TrackScenario

SetCurrentIndexS(index, ub) == SetCurrentIndexCall(index, ub) /\ TrackScenario

DestroyS(dw) == DestroyCall(dw, <<>>) /\ TrackScenario

NextScenario ==
    \/ \E dw \in Handles, index \in Indexes : InsertS(dw, index)
    \/ \E dw \in Handles : RemoveS(dw)
    \/ \E index \in Indexes, ub \in UBOutcomes : SetCurrentIndexS(index, ub)
    \/ \E dw \in Handles : DestroyS(dw)

SpecScenario == Init /\ [][NextScenario]_vars

----------------------------------------------------------------------------
\* SpecHover: insert and remove, and the hover events of the tab bar.

InsertH(dw, index) == InsertCall(dw, index) /\ NoHistory

RemoveH(dw) == RemoveCall(dw, <<>>) /\ NoHistory

OnHoverEvent(type, globalPos) == OnHoverEventCall(type, globalPos) /\ NoHistory

NextHover ==
    \/ \E dw \in Handles, index \in Indexes : InsertH(dw, index)
    \/ \E dw \in Handles : RemoveH(dw)
    \/ \E type \in HoverTypes, globalPos \in Points : OnHoverEvent(type, globalPos)

SpecHover == Init /\ [][NextHover]_vars

----------------------------------------------------------------------------
\* Properties.

\* How many events of one kind a trace holds.
NumEvents(tr, kind) == Cardinality({i \in 1..Len(tr) : tr[i].ev = kind})

\* q without every occurrence of x.
Without(q, x) == SelectSeq(q, LAMBDA y : y # x)

\* C1: after any sequence of insert, remove, setCurrentIndex and destruction
\* the current handle is NULL or an element of m_dockWidgets.
C1_CurrentInSequence ==
    m_currentDockWidget = NULL \/ m_currentDockWidget \in Range(m_dockWidgets)

\* C2: no handle appears more than once in m_dockWidgets.
C2_NoDuplicates ==
    \A i, j \in 1..Len(m_dockWidgets) : i # j => m_dockWidgets[i] # m_dockWidgets[j]

\* C2's case: an insert of a handle already present was just rejected while
\* the list holds several handles.
C2_Witness ==
    /\ lastOp.op = "insert" /\ lastOp.ret = 0
    /\ Len(m_dockWidgets) >= 2
    /\ lastOp.dw \in Range(m_dockWidgets)

\* C3: every setVisible and title call of the model targets a handle that is
\* still alive when the call is made.
C3_CallsOnLiveHandles ==
    \A i \in 1..Len(trace) :
        trace[i].ev \in {"setVisible", "title"} => trace[i].live

\* C4: destroying a handle of the list takes it out of the list and emits one
\* rowsRemoved, one countChanged and one dockWidgetRemoved; destroying a handle
\* that is not in the list (never inserted, or removed before) changes nothing
\* and emits nothing.
C4_DestroyRemovesOnce ==
    [][\A h \in Handles :
          (alive[h] /\ ~alive'[h]) =>
              IF h \in Range(m_dockWidgets)
              THEN /\ m_dockWidgets' = Without(m_dockWidgets, h)
                   /\ Len(m_dockWidgets') = Len(m_dockWidgets) - 1
                   /\ NumEvents(trace', "rowsRemoved") = 1
                   /\ NumEvents(trace', "countChanged") = 1
                   /\ NumEvents(trace', "dockWidgetRemoved") = 1
              ELSE /\ m_dockWidgets' = m_dockWidgets
                   /\ trace' = <<>>]_vars

\* C4's case: a handle that was in the list has just been destroyed and the
\* three removal signals were emitted.
C4_Witness ==
    /\ lastOp.op = "destroy" /\ lastOp.ret >= 0
    /\ ~alive[lastOp.dw]
    /\ lastOp.dw \notin Range(m_dockWidgets)
    /\ NumEvents(trace, "countChanged") = 1
    /\ NumEvents(trace, "dockWidgetRemoved") = 1

\* C5: insert of a handle already present returns false, leaves the list, the
\* current handle and the connections as they were, emits no countChanged and
\* logs the warning.
C5_DuplicateInsertRejected ==
    [][\A h \in Handles :
          (lastOp'.op = "insert" /\ lastOp'.dw = h /\ h \in Range(m_dockWidgets)) =>
              /\ lastOp'.ret = 0
              /\ UNCHANGED <<m_dockWidgets, m_currentDockWidget, m_connections, connected>>
              /\ NumEvents(trace', "countChanged") = 0
              /\ NumEvents(trace', "qWarning: Shouldn't happen") = 1]_vars

\* C5's case: the last call was an insert of the current handle, rejected
\* with the warning as its only effect.
C5_Witness ==
    /\ lastOp.op = "insert" /\ lastOp.ret = 0
    /\ lastOp.dw = m_currentDockWidget
    /\ trace = <<Ev("qWarning: Shouldn't happen", lastOp.dw, 0, TRUE, FALSE)>>

\* C6: remove of a handle that is not in the list leaves the list, the current
\* handle, the connections and the guard as they were and emits neither
\* countChanged nor dockWidgetRemoved (nor any row signal).
C6_RemoveAbsentIsNoOp ==
    [][\A h \in Handles :
          (lastOp'.op = "remove" /\ lastOp'.dw = h /\ h \notin Range(m_dockWidgets)) =>
              /\ UNCHANGED <<m_dockWidgets, m_currentDockWidget, m_connections,
                             connected, m_removeGuard>>
              /\ NumEvents(trace', "countChanged") = 0
              /\ NumEvents(trace', "dockWidgetRemoved") = 0
              /\ NumEvents(trace', "rowsRemoved") = 0
              /\ NumEvents(trace', "rowsAboutToBeRemoved") = 0]_vars

\* C6's case: remove was just called on a handle that is not in the list,
\* while the list holds other handles and a current one.
C6_Witness ==
    /\ lastOp.op = "remove" /\ lastOp.ret = 0 - 1
    /\ Len(m_dockWidgets) >= 1
    /\ m_currentDockWidget \in Range(m_dockWidgets)

\* Whether entry i of the trace, a call of remove, is followed by its warning.
Warned(tr, i) == i < Len(tr) /\ tr[i + 1].ev = "qWarning: Nothing to remove"

C8_ValidIndexBecomesCurrent ==
    (lastOp.op = "setCurrentIndex" /\ ~crashed
        /\ 0 <= lastOp.arg /\ lastOp.arg < count(Self)) =>
            /\ currentIndex(Self) = lastOp.arg
            /\ m_currentDockWidget = m_dockWidgets[lastOp.arg + 1]

\* C8's case: setCurrentIndex(i) returned for a valid i when the previously
\* current handle was another one, already destroyed.
C8_Witness ==
    /\ lastOp.op = "setCurrentIndex" /\ ~crashed
    /\ 0 <= lastOp.arg /\ lastOp.arg < count(Self)
    /\ lastOp.dw # NULL /\ ~alive[lastOp.dw]
    /\ m_currentDockWidget # lastOp.dw

\* C9: after setCurrentIndex with an index out of range returns while a handle
\* (lastOp.dw) was current, currentIndex() is -1, no handle is current, the
\* previous one got exactly one setVisible(false) and no setVisible(true) was
\* issued.
C9_OutOfRangeClearsCurrent ==
    (lastOp.op = "setCurrentIndex" /\ ~crashed
        /\ (lastOp.arg < 0 \/ lastOp.arg >= count(Self))
        /\ lastOp.dw # NULL) =>
            /\ currentIndex(Self) = 0 - 1
            /\ m_currentDockWidget = NULL
            /\ Cardinality({i \in 1..Len(trace) :
                   trace[i].ev = "setVisible" /\ trace[i].dw = lastOp.dw
                       /\ trace[i].arg = 0}) = 1
            /\ \A i \in 1..Len(trace) :
                   trace[i].ev = "setVisible" => trace[i].arg = 0 /\ trace[i].dw = lastOp.dw

\* C9's case: setCurrentIndex(count()) returned while a listed handle was
\* current.
C9_Witness ==
    /\ lastOp.op = "setCurrentIndex" /\ ~crashed
    /\ lastOp.arg = count(Self) /\ lastOp.arg >= 2
    /\ lastOp.dw \in Range(m_dockWidgets)
    /\ m_currentDockWidget = NULL

\* C10 as claimed: indexOf(h) is h's rank among the tracked handles by time of
\* insertion (its insertion position less the removed handles before it), and
\* -1 for a handle that is not tracked.
C10_IndexOfIsInsertionRank ==
    \A h \in Handles : indexOf(Self, h) = QIndexOf(insertionOrder, h)

\* C10 as amended: the same, as long as every insert appended (index =
\* count()).
C10_AppendedOrderPreserved ==
    appendOnly => \A h \in Handles : indexOf(Self, h) = QIndexOf(insertionOrder, h)

\* C10's case: only appends so far, and the handle at the front of the list
\* was just removed or destroyed, shifting the two or more behind it.
C10_Witness ==
    /\ appendOnly
    /\ lastOp.op \in {"remove", "destroy"} /\ lastOp.ret = 0
    /\ Len(m_dockWidgets) >= 2

\* The diagnostics the model can log.
Warnings ==
    {"qWarning: Shouldn't happen", "qWarning: Nothing to remove",
     "qWarning: Couldn't find", "qWarning: Unexpected null index"}

\* No error in the entry point that just ran: no crash, no warning, no call
\* on a destroyed handle.
NoError ==
    /\ ~crashed
    /\ \A i \in 1..Len(trace) :
           trace[i].ev \notin Warnings /\ (trace[i].dw # NULL => trace[i].live \/ trace[i].ev = "remove")

\* C11 as claimed: at the end of the scenario the list is [B], count() is 2,
\* and no step of the scenario raised an error.
C11_ScenarioEndsWithCountTwo ==
    /\ scenarioStep >= 1 => NoError
    /\ scenarioStep = Len(Scenario) => m_dockWidgets = <<2>> /\ count(Self) = 2

\* C11 as amended: at the end of the scenario the list is [B], count() is 1,
\* and no step of the scenario raised an error.
C11_ScenarioEndsWithB ==
    /\ scenarioStep >= 1 => NoError
    /\ scenarioStep = Len(Scenario) => m_dockWidgets = <<2>> /\ count(Self) = 1

\* C11's case: the six steps of the scenario have just been run.
C11_Witness ==
    /\ scenarioStep = Len(Scenario)
    /\ lastOp.op = "destroy" /\ lastOp.dw = 3
    /\ m_currentDockWidget = 2

C15_RemoveOtherKeepsCurrent ==
    [][\A h \in Handles :
          (/\ lastOp'.op \in {"remove", "destroy"} /\ lastOp'.dw = h
           /\ h \in Range(m_dockWidgets)
           /\ h # m_currentDockWidget) =>
              /\ m_currentDockWidget' = m_currentDockWidget
              /\ NumEvents(trace', "setVisible") = 0
              /\ m_currentDockWidget \in Range(m_dockWidgets) =>
                     QIndexOf(m_dockWidgets', m_currentDockWidget') =
                        currentIndex(Self)
                           - (IF indexOf(Self, h) < currentIndex(Self) THEN 1 ELSE 0)]_vars

\* C15's case: a handle that preceded the current one was just removed, and
\* the current one is now at the position the removed one had or later.
C15_Witness ==
    /\ lastOp.op = "remove" /\ lastOp.ret >= 0
    /\ m_currentDockWidget \in Range(m_dockWidgets)
    /\ lastOp.dw # m_currentDockWidget
    /\ currentIndex(Self) >= lastOp.ret
    /\ currentIndex(Self) >= 1

\* The calls setCurrentIndex(index) makes, in order, when it replaces the
\* current handle prev by new.
ExpectedSwitch(prev, new, index) ==
    (IF prev # NULL THEN <<Ev("setVisible", prev, 0, alive[prev], FALSE)>> ELSE <<>>)
    \o <<Ev("m_currentDockWidget =", new, 0, TRUE, FALSE)>>
    \o (IF new # NULL THEN <<Ev("setVisible", new, 1, alive[new], TRUE)>> ELSE <<>>)
    \o <<Ev("m_tabBar->setCurrentIndex", NULL, index, TRUE, FALSE)>>

\* C16: when setCurrentIndex(index) resolves to a handle other than the
\* current one (lastOp.dw) and returns, it has done exactly this, in this
\* order: setVisible(false) on the previous handle if there was one, the
\* update of the current handle, setVisible(true) on the new handle if there is
\* one, with its m_isSettingCurrent true during that call only, and the
\* controller's setCurrentIndex(index).
C16_SwitchStepsInOrder ==
    (lastOp.op = "setCurrentIndex" /\ ~crashed
        /\ dockWidgetAt(Self, lastOp.arg) # lastOp.dw) =>
            /\ trace = ExpectedSwitch(lastOp.dw, dockWidgetAt(Self, lastOp.arg), lastOp.arg)
            /\ m_currentDockWidget = dockWidgetAt(Self, lastOp.arg)
            /\ \A h \in Handles : ~m_isSettingCurrent[h]

\* C16's case: setCurrentIndex has just replaced one listed handle by another.
C16_Witness ==
    /\ lastOp.op = "setCurrentIndex" /\ ~crashed
    /\ lastOp.dw \in Range(m_dockWidgets)
    /\ m_currentDockWidget \in Range(m_dockWidgets)
    /\ m_currentDockWidget # lastOp.dw
    /\ Len(trace) = 4

\* C17: setCurrentIndex with an index that resolves to the handle that is
\* already current (or to none when none is current) makes no call at all and
\* leaves every field as it was.
C17_SameCurrentIsNoOp ==
    [][(lastOp'.op = "setCurrentIndex"
          /\ dockWidgetAt(Self, lastOp'.arg) = m_currentDockWidget) =>
              /\ trace' = <<>>
              /\ ~crashed'
              /\ UNCHANGED <<m_dockWidgets, m_currentDockWidget, m_connections,
                             m_removeGuard, m_isSettingCurrent, connected, alive>>]_vars

\* C17's case: setCurrentIndex was just called with the index of the handle
\* that was already current.
C17_Witness ==
    /\ lastOp.op = "setCurrentIndex" /\ lastOp.dw # NULL
    /\ lastOp.arg >= 1
    /\ dockWidgetAt(Self, lastOp.arg) = lastOp.dw
    /\ m_currentDockWidget = lastOp.dw
    /\ trace = <<>>

\* The two connections insert makes for dw.
ConnectionsOf(dw) == {Conn(dw, "titleChanged"), Conn(dw, "destroyed")}

\* C18: between entry points a handle has its two connections, and its entry
\* in m_connections, exactly when it is in m_dockWidgets; a title change of a
\* handle at row p emits dataChanged for row p and nothing else, and a title
\* change or destruction of a handle that is not listed does nothing.
C18_ConnectedIffListed ==
    /\ DOMAIN m_connections = Range(m_dockWidgets)
    /\ \A h \in Handles :
           IF h \in Range(m_dockWidgets)
           THEN ConnectionsOf(h) \subseteq connected /\ Range(m_connections[h]) = ConnectionsOf(h)
           ELSE ConnectionsOf(h) \cap connected = {}
    /\ lastOp.op = "titleChanged" =>
           trace = IF lastOp.dw \in Range(m_dockWidgets)
                   THEN <<Ev("dataChanged", NULL, indexOf(Self, lastOp.dw), TRUE, FALSE)>>
                   ELSE <<>>
    /\ (lastOp.op = "destroy" /\ lastOp.ret = 0 - 1) => trace = <<>>

\* C18's case: the title of a handle that was removed while current has just
\* changed, with other handles still listed.
C18_Witness ==
    /\ lastOp.op = "titleChanged"
    /\ lastOp.dw = m_currentDockWidget
    /\ lastOp.dw \notin Range(m_dockWidgets)
    /\ Len(m_dockWidgets) >= 1

\* C19: after every completed insert, remove and destruction the list kept
\* by an observer of the row signals equals m_dockWidgets.
C19_MirrorInSync ==
    mirror = m_dockWidgets

\* C19's case: a handle in the middle of the list was just destroyed and
\* the observer followed the removal.
C19_Witness ==
    /\ lastOp.op = "destroy" /\ lastOp.ret = 1
    /\ Len(mirror) >= 2
    /\ NumEvents(trace, "rowsRemoved") = 1

\* The index claimed for a hover event: -1 for HoverLeave, otherwise the
\* lowest of the n tabs whose rectangle contains the pointer, -1 if none does.
ClaimedHoverIndex(ev, n) ==
    LET under == {i \in ev.hit : i < n}
    IN  IF ev.type = "HoverLeave" \/ under = {} THEN 0 - 1
        ELSE CHOOSE i \in under : \A j \in under : i <= j

\* C20: a hover event leaves m_hoveredTabIndex at -1 for HoverLeave and
\* otherwise at the lowest tab index whose global rectangle contains the
\* pointer (-1 if none); hoveredTabIndexChanged is emitted once, with that
\* index, when it differs from the stored one and not at all when it is the
\* same; nothing else changes the index or emits the signal.
C20_HoverIndexChangesOnlyOnDifference ==
    [][IF lastOp'.op = "onHoverEvent"
       THEN LET idx == ClaimedHoverIndex(hoverEvent', count(Self))
            IN  /\ m_hoveredTabIndex' = idx
                /\ trace' = IF idx # m_hoveredTabIndex
                            THEN <<Ev("hoveredTabIndexChanged", NULL, idx, TRUE, FALSE)>>
                            ELSE <<>>
       ELSE /\ m_hoveredTabIndex' = m_hoveredTabIndex
            /\ NumEvents(trace', "hoveredTabIndexChanged") = 0]_vars

\* C20's case: a hover event other than HoverLeave arrived with the pointer
\* inside the rectangles of two tabs, neither the first, and the hovered
\* index changed to the lower of them.
C20_Witness ==
    /\ lastOp.op = "onHoverEvent" /\ hoverEvent.type = "HoverMove"
    /\ Cardinality({i \in hoverEvent.hit : i < count(Self)}) >= 2
    /\ m_hoveredTabIndex = 1
    /\ NumEvents(trace, "hoveredTabIndexChanged") = 1

====
